---- MODULE Spec2Model ----
(***************************************************************************)
(* Multi-layer analysis orchestrator of codebase-analyzer-mcp: the         *)
(* orchestrateAnalysis pipeline (surface -> structural -> semantic ->      *)
(* synthesis), the progressive-disclosure builder (sections, expansion)    *)
(* and the in-memory AnalysisCache (TTL, capacity eviction, lookups).      *)
(*                                                                         *)
(* Strings that the code inspects character by character (source paths,    *)
(* module paths, section ids) are sequences of one-character strings.      *)
(* An optional value (T | null | undefined) is a sequence of length <= 1:   *)
(* <<>> is null/undefined, <<v>> is the value v.                           *)
(***************************************************************************)
EXTENDS Integers, Sequences, FiniteSets, TLC

VARIABLES
    cache,      \* AnalysisCache.cache: the Map, as the sequence of its entries in insertion order
    now,        \* Date.now(), in milliseconds
    runs,       \* one record per orchestrateAnalysis invocation slot
    nextId,     \* source of fresh analysisIds (generateAnalysisId)
    ticks,      \* how many times the clock has been advanced
    resp,       \* the response of the tool call made by the last step, if that step was one
    retry,      \* an invocation of withRetry: its loop position and the attempts made
    logger      \* the Logger singleton: its current spinner and the interval timers running

vars == <<cache, now, runs, nextId, ticks, resp, retry, logger>>

-----------------------------------------------------------------------------
(* Bounds of the model *)

\* number of orchestrateAnalysis invocations in one behaviour
MaxRuns == 2

\* number of times the clock is advanced in one behaviour
MaxTicks == 1

-----------------------------------------------------------------------------
(* Program constants *)

DEFAULT_TTL_MS == 3600000

MAX_CACHE_ENTRIES == 50

DEFAULT_TOKEN_BUDGET == 800000

MAX_PARALLEL_STRUCTURAL == 5

\* retry configuration of the Gemini client
MAX_RETRIES == 3

BASE_DELAY_MS == 1000

MAX_DELAY_MS == 30000

\* surface.identifiedModules.slice(0, 10) in buildExpandableSections
MaxModuleSections == 10

\* structuralData.symbols.slice(0, 20) in expandSection
TopSymbolCount == 20

\* semantic.patterns.slice(0, 10) in expandSection
TopPatternCount == 10

TokensPerModule == 50000

SemanticTokenCap == 8192

\* the limit semanticAnalysis falls back on
SemanticDefaultTokens == 8192

-----------------------------------------------------------------------------
(* Helpers *)

None == <<>>

Some(v) == <<v>>

Min(a, b) == IF a < b THEN a ELSE b

\* Math.ceil(a / b) for b > 0
CeilDiv(a, b) == (a + b - 1) \div b

\* Array.prototype.slice(0, n)
Take(s, n) == SubSeq(s, 1, Min(n, Len(s)))

\* the least of a set of positions, 0 when there is none: the position found
\* by Array.prototype.find or by a loop that stops at the first match
First(S) == IF S = {} THEN 0 ELSE CHOOSE i \in S : \A j \in S : i <= j

Digits == <<"0", "1", "2", "3", "4", "5", "6", "7", "8", "9">>

\* the two decimal digits of i < 100
TwoDigits(i) == <<Digits[(i \div 10) + 1], Digits[(i % 10) + 1]>>

\* the characters matched by [a-zA-Z0-9]
AlphaNum ==
    {"a","b","c","d","e","f","g","h","i","j","k","l","m","n","o","p","q","r","s","t",
     "u","v","w","x","y","z",
     "A","B","C","D","E","F","G","H","I","J","K","L","M","N","O","P","Q","R","S","T",
     "U","V","W","X","Y","Z",
     "0","1","2","3","4","5","6","7","8","9"}

-----------------------------------------------------------------------------
(* AnalysisCache (src/core/cache.ts) *)

\* source.replace(/\\/g, "/")
BackslashesToSlashes(s) == [i \in DOMAIN s |-> IF s[i] = "\\" THEN "/" ELSE s[i]]

\* .replace(/\/+$/, "")
RECURSIVE StripTrailingSlashes(_)
StripTrailingSlashes(s) ==
    IF Len(s) > 0 /\ s[Len(s)] = "/"
    THEN StripTrailingSlashes(SubSeq(s, 1, Len(s) - 1))
    ELSE s

\* generateKey(source): no caller passes a commitHash
generateKey(source) == StripTrailingSlashes(BackslashesToSlashes(source))

\* the comparison turned round
IsExpiredReversed(entry, t) == t < entry.expiresAt

\* Date.now() > entry.expiresAt
IsExpired(entry, t) == t > entry.expiresAt

\* position of the entry stored under key, 0 when the Map has none
KeyIdx(c, key) == First({i \in 1..Len(c) : c[i].key = key})

\* Map.delete(key)
MapDelete(c, key) == SelectSeq(c, LAMBDA e : e.key # key)

\* Map.set(key, entry): an existing key keeps its place in the iteration order
MapSet(c, entry) ==
    IF KeyIdx(c, entry.key) = 0
    THEN Append(c, entry)
    ELSE [c EXCEPT ![KeyIdx(c, entry.key)] = entry]

\* the loop of evictOldest: the first entry, in iteration order, whose createdAt
\* is strictly below every earlier one's (0 for an empty Map)
OldestIdx(c) ==
    First({i \in 1..Len(c) : \A j \in 1..Len(c) : c[i].createdAt <= c[j].createdAt})

\* if (oldestKey): a JavaScript string is truthy iff it is non-empty
Truthy(key) == key # <<>>

\* evictOldest()
evictOldest(c) ==
    IF OldestIdx(c) # 0 /\ Truthy(c[OldestIdx(c)].key)
    THEN MapDelete(c, c[OldestIdx(c)].key)
    ELSE c

\* if (this.cache.size >= MAX_CACHE_ENTRIES) this.evictOldest()
EnforceMaxEntries(c) == IF Len(c) >= MAX_CACHE_ENTRIES THEN evictOldest(c) ELSE c

\* the CacheEntry built by set()
NewEntry(source, data, depth, t) ==
    [key       |-> generateKey(source),
     value     |-> data,
     createdAt |-> t,
     expiresAt |-> t + DEFAULT_TTL_MS,
     metadata  |-> [source |-> source, depth |-> depth]]

\* set(source, data, undefined, depth) at time t
CacheSet(c, source, data, depth, t) ==
    MapSet(EnforceMaxEntries(c), NewEntry(source, data, depth, t))

\* get(source) at time t: the cache afterwards and the value returned
CacheGet(c, source, t) ==
    LET i == KeyIdx(c, generateKey(source)) IN
    IF i = 0 THEN [cache |-> c, value |-> None]
    ELSE IF IsExpired(c[i], t)
         THEN [cache |-> MapDelete(c, generateKey(source)), value |-> None]
         ELSE [cache |-> c, value |-> Some(c[i].value)]

\* has(source) at time t
CacheHas(c, source, t) ==
    LET i == KeyIdx(c, generateKey(source)) IN
    IF i = 0 THEN [cache |-> c, value |-> FALSE]
    ELSE IF IsExpired(c[i], t)
         THEN [cache |-> MapDelete(c, generateKey(source)), value |-> FALSE]
         ELSE [cache |-> c, value |-> TRUE]

\* a scan that deletes every expired entry it meets up to the entry sought
getByAnalysisIdSweeping(c, analysisId, t) ==
    LET i    == First({n \in 1..Len(c) : c[n].value.result.analysisId = analysisId})
        last == IF i = 0 THEN Len(c) ELSE i
        kept == {n \in 1..Len(c) : n > last \/ ~IsExpired(c[n], t)}
        rest == SelectSeq(c, LAMBDA e : KeyIdx(c, e.key) \in kept)
    IN IF i = 0 \/ IsExpired(c[i], t)
       THEN [cache |-> rest, value |-> None]
       ELSE [cache |-> rest, value |-> Some(c[i].value)]

\* getByAnalysisId(analysisId) at time t: the scan stops at the first entry
\* carrying the id
getByAnalysisId(c, analysisId, t) ==
    LET i == First({n \in 1..Len(c) : c[n].value.result.analysisId = analysisId}) IN
    IF i = 0 THEN [cache |-> c, value |-> None]
    ELSE IF IsExpired(c[i], t)
         THEN [cache |-> MapDelete(c, c[i].key), value |-> None]
         ELSE [cache |-> c, value |-> Some(c[i].value)]

-----------------------------------------------------------------------------
(* The environment: the directories that can be analysed *)

SrcRoot == <<"/">>

SrcA == <<"a">>

SrcASlash == <<"a", "/">>

\* a directory with more sub-directories than the result has module sections
SrcBig == <<"b">>

\* the sub-directories of SrcBig, in identifyModules' order
BigModules ==
    [i \in 1..(MaxModuleSections + 1) |->
        [path |-> <<"m">> \o TwoDigits(i), name |-> <<"m">> \o TwoDigits(i),
         type |-> "unknown", fileCount |-> MaxModuleSections + 2 - i]]

\* a repository on GitHub
SrcRemote == <<"https://github.com/", "o", "/", "r">>

\* source.startsWith("https://github.com/") || source.startsWith("git@github.com:")
isGitHubUrl(source) ==
    Len(source) > 0 /\ source[1] \in {"https://github.com/", "git@github.com:"}

\* the directory mkdtemp(join(tmpdir(), "cba-")) makes for the n-th call
TempDir(n) == <<"/", "t", "m", "p", "/", "cba-">> \o TwoDigits(n)

\* the directory is a clone made by cloneGitHubRepo
IsClone(path) == Len(path) > 5 /\ SubSeq(path, 1, 6) = SubSeq(TempDir(0), 1, 6)

\* resolveSource(source) for the n-th call: a clone with its cleanup, or the
\* local directory as it was passed
resolveSource(source, n) ==
    IF isGitHubUrl(source)
    THEN [repoPath |-> TempDir(n), cleanup |-> TRUE]
    ELSE [repoPath |-> source, cleanup |-> FALSE]

\* the source identifiers the callers of get and has pass
Sources == {SrcRoot, SrcA, SrcASlash}

PathSrc == <<"s", "r", "c">>

PathMyLib == <<"m", "y", "-", "l", "i", "b">>

PathBad == <<"b", "a", "d">>

PathADashB == <<"a", "-", "b">>

PathAUnderB == <<"a", "_", "b">>

ModulePaths == {PathSrc, PathMyLib, PathBad, PathADashB, PathAUnderB}

\* ModuleIdentification, as identifyModules builds it (name is the path)
Module(path, type, fileCount) ==
    [path |-> path, name |-> path, type |-> type, fileCount |-> fileCount]

\* a FileInfo: relativePath is kept as relativePath.split("/") gives it
File(relativePath, language, size) ==
    [relativePath |-> relativePath, language |-> language, size |-> size]

\* a directory whose only file is main.go, holding "func main() {}\n"
SrcGo == <<"g">>

\* an empty directory
SrcEmpty == <<"e">>

\* a directory with a file at its root and files in two subdirectories
SrcNested == <<"n">>

\* the files glob("**/*") finds under the directory, in its order
FilesOf(source) ==
    IF source = SrcGo THEN <<File(<<"main.go">>, "Go", 15)>>
    ELSE IF source = SrcNested
    THEN <<File(<<"main.go">>, "Go", 15),
           File(<<"tools", "run.go">>, "Go", 4000),
           File(<<"lib", "a.ts">>, "TypeScript", 2500),
           File(<<"lib", "deep", "b.ts">>, "TypeScript", 500)>>
    ELSE <<>>

\* the directories of the analysed files
ScenarioSources == {SrcGo, SrcEmpty, SrcNested}

PRIORITY_DIRECTORIES ==
    {"src", "lib", "app", "pages", "components", "api", "routes", "controllers",
     "models", "services", "utils", "helpers", "core", "pkg", "internal", "cmd"}

\* parts.some((part) => PRIORITY_DIRECTORIES.includes(part))
isPriorityDirectory(dirPath) == \E i \in 1..Len(dirPath) : dirPath[i] \in PRIORITY_DIRECTORIES

\* the directories of a relative path, i.e. every part but the file name
DirParts(parts) == {parts[i] : i \in 1..(Len(parts) - 1)}

\* the first entry of MODULE_TYPE_PATTERNS one of whose patterns the path
\* matches; a pattern "name/" is taken to match a directory of that name
PatternType(parts) ==
    IF \/ parts[1] \in {"lib", "pkg", "internal"} /\ Len(parts) > 1
       \/ Len(parts) > 1 /\ parts[1] = "src" /\ parts[2] \in {"core", "lib"}
    THEN "core"
    ELSE IF DirParts(parts) \cap {"util", "utils", "helper", "helpers", "common", "shared"} # {}
    THEN "util"
    ELSE IF DirParts(parts) \cap {"test", "tests", "spec", "specs", "__tests__"} # {}
    THEN "test"
    ELSE IF DirParts(parts) \cap {"config", "settings"} # {}
    THEN "config"
    ELSE "unknown"

\* the moduleType identifyModules computes for a file
FileModuleType(file) ==
    IF isPriorityDirectory(<<file.relativePath[1]>>) THEN "core"
    ELSE PatternType(file.relativePath)

\* the files identifyModules does not skip (parts.length < 2 -> continue)
InDirectory(files) == SelectSeq(files, LAMBDA f : Len(f.relativePath) >= 2)

\* the keys of the modules Map in insertion order
RECURSIVE ModuleKeys(_)
ModuleKeys(files) ==
    IF files = <<>> THEN <<>>
    ELSE LET rest == ModuleKeys(SubSeq(files, 1, Len(files) - 1))
             key  == files[Len(files)].relativePath[1]
         IN IF \E i \in 1..Len(rest) : rest[i] = key THEN rest ELSE Append(rest, key)

\* the entry of the modules Map under a key: the type of the first file, or
\* of the first later file that is not "unknown"
GroupedModule(files, key) ==
    LET own   == SelectSeq(files, LAMBDA f : f.relativePath[1] = key)
        known == SelectSeq(own, LAMBDA f : FileModuleType(f) # "unknown")
    IN Module(<<key>>, IF known = <<>> THEN "unknown" ELSE FileModuleType(known[1]),
              Len(own))

\* typePriority
TypePriority(type) ==
    CASE type = "core" -> 0 [] type = "util" -> 1 [] type = "config" -> 2
      [] type = "unknown" -> 3 [] OTHER -> 4

\* the comparator of identifyModules' sort is negative or zero for (a, b)
ModuleBefore(a, b) ==
    IF TypePriority(a.type) # TypePriority(b.type)
    THEN TypePriority(a.type) < TypePriority(b.type)
    ELSE b.fileCount - a.fileCount <= 0

\* Array.prototype.sort with that comparator (a stable sort)
RECURSIVE SortModules(_)
SortModules(ms) ==
    IF ms = <<>> THEN <<>>
    ELSE LET sorted == SortModules(SubSeq(ms, 1, Len(ms) - 1))
             m      == ms[Len(ms)]
             ahead  == {i \in 1..Len(sorted) : ModuleBefore(sorted[i], m)}
             k      == IF ahead = {} THEN 0
                       ELSE CHOOSE i \in ahead : \A j \in ahead : j <= i
         IN SubSeq(sorted, 1, k) \o <<m>> \o SubSeq(sorted, k + 1, Len(sorted))

\* identifyModules(files)
identifyModules(files) ==
    LET inDir == InDirectory(files)
        keys  == ModuleKeys(inDir)
    IN SortModules([i \in 1..Len(keys) |-> GroupedModule(inDir, keys[i])])

\* the value of a JavaScript number that is not a number
NaN == -1

\* scores are computed in parts of ScoreUnit
ScoreUnit == 100000

\* the sum of the sizes of the files
RECURSIVE TotalSize(_)
TotalSize(files) ==
    IF files = <<>> THEN 0 ELSE files[1].size + TotalSize(Tail(files))

\* calculateComplexity(files, modules): with no file, avgSize is 0 / 0, that
\* is NaN, and Math.min, + and Math.round hand NaN on
calculateComplexity(files, modules) ==
    IF Len(files) = 0 THEN NaN
    ELSE LET fileCountScore == Min(30 * ScoreUnit, (Len(files) * ScoreUnit) \div 100)
             moduleScore    == Min(20 * ScoreUnit, Len(modules) * 2 * ScoreUnit)
             languages      == {files[i].language : i \in 1..Len(files)}
             langScore      == Min(20 * ScoreUnit, Cardinality(languages) * 4 * ScoreUnit)
             sizeScore      == Min(15 * ScoreUnit,
                                   (TotalSize(files) * ScoreUnit) \div (Len(files) * 1000))
             depths         == {Len(files[i].relativePath) : i \in 1..Len(files)}
             maxDepth       == CHOOSE d \in depths : \A e \in depths : e <= d
             depthScore     == Min(15 * ScoreUnit, maxDepth * 2 * ScoreUnit)
             score          == fileCountScore + moduleScore + langScore + sizeScore
                               + depthScore
         IN (Min(100 * ScoreUnit, score) + ScoreUnit \div 2) \div ScoreUnit

\* surfaceAnalysis of a directory with the given files
SurfaceFromFiles(files) ==
    [identifiedModules |-> identifyModules(files),
     estimatedTokens   |-> CeilDiv(TotalSize(files), 4),
     complexity        |-> calculateComplexity(files, identifyModules(files)),
     fileCount         |-> Len(files)]

\* what surfaceAnalysis reports for the directory a source resolves to; the
\* module lists are in identifyModules' order (type priority, then file count
\* descending)
SurfaceOf(source) ==
    IF generateKey(source) = generateKey(SrcA)
    THEN [identifiedModules |-> <<Module(PathSrc, "core", 3),
                                  Module(PathMyLib, "unknown", 2),
                                  Module(PathBad, "unknown", 1)>>,
          estimatedTokens   |-> 1000,
          complexity        |-> 20,
          fileCount         |-> 6]
    ELSE IF generateKey(source) = generateKey(SrcRoot)
    THEN [identifiedModules |-> <<Module(PathADashB, "unknown", 2),
                                  Module(PathAUnderB, "unknown", 1)>>,
          estimatedTokens   |-> 500,
          complexity        |-> 10,
          fileCount         |-> 3]
    ELSE IF generateKey(source) = generateKey(SrcBig)
    THEN [identifiedModules |-> BigModules, estimatedTokens |-> 2000, complexity |-> 30,
          fileCount |-> 66]
    ELSE IF IsClone(source)
    THEN [identifiedModules |-> <<Module(PathSrc, "core", 3)>>,
          estimatedTokens   |-> 300,
          complexity        |-> 5,
          fileCount         |-> 3]
    ELSE SurfaceFromFiles(FilesOf(source))

\* what happens to a module in analyzeModulesStructurally:
\*   "nofiles" no loaded file lies under the module (moduleFiles.length === 0),
\*   "throws"  structuralAnalysis throws,
\*   "ok"      structuralAnalysis returns a report
ExtractionOutcome(path) ==
    IF path \in {PathBad, BigModules[3].path} THEN "throws"
    ELSE IF path \in {PathAUnderB, BigModules[Len(BigModules)].path} THEN "nofiles"
    ELSE "ok"

\* number of symbols structuralAnalysis finds in a module
SymbolCountOf(path) ==
    IF path = PathSrc THEN TopSymbolCount + 1
    ELSE IF path = PathMyLib THEN 2
    ELSE 1

\* the StructuralAnalysis of a module: its symbols are named after the module
StructuralReport(path) ==
    [modulePath  |-> path,
     symbols     |-> [k \in 1..SymbolCountOf(path) |->
                        [name |-> <<path, k>>, exported |-> (k = 1)]],
     exports     |-> <<<<path, 1>>>>,
     importCount |-> 1]

\* the SemanticAnalysis the service returns when it answers
SemanticReport ==
    [architectureType |-> "layered",
     patterns         |-> <<[name |-> "factory", confidence |-> 9]>>,
     dataModels       |-> <<>>,
     apiEndpoints     |-> <<>>]

-----------------------------------------------------------------------------
(* Progressive disclosure (src/core/disclosure.ts) *)

\* path.replace(/[^a-zA-Z0-9]/g, "_")
Sanitize(path) == [i \in DOMAIN path |-> IF path[i] \in AlphaNum THEN path[i] ELSE "_"]

\* `module_${...}`: the prefix is kept as one element
ModuleSectionId(path) == <<"module_">> \o Sanitize(path)

\* structural.find((s) => s.modulePath === path)
FindReport(structural, path) ==
    LET i == First({n \in 1..Len(structural) : structural[n].modulePath = path}) IN
    IF i = 0 THEN None ELSE Some(structural[i])

\* the section buildExpandableSections makes of one surface module
ModuleSection(module, structural) ==
    LET structuralData == FindReport(structural, module.path) IN
    [id        |-> ModuleSectionId(module.path),
     title     |-> <<"Module: ">> \o module.name,
     type      |-> "module",
     canExpand |-> structuralData # None,
     detail    |-> IF structuralData # None
                   THEN Some([exports     |-> structuralData[1].exports,
                              symbolCount |-> Len(structuralData[1].symbols),
                              importCount |-> structuralData[1].importCount])
                   ELSE None,
     full      |-> None]

\* the sections built from the semantic report, in the order patterns,
\* data models, API endpoints; each only if its list is non-empty
SemanticSections(semantic) ==
    IF semantic = None THEN <<>>
    ELSE
      (IF Len(semantic[1].patterns) > 0
       THEN <<[id |-> <<"patterns_overview">>, title |-> <<"Design Patterns">>,
               type |-> "pattern", canExpand |-> TRUE,
               detail |-> Some([patternCount |-> Len(semantic[1].patterns),
                                topPatterns  |-> Take(semantic[1].patterns, 5)]),
               full |-> None]>>
       ELSE <<>>)
      \o
      (IF Len(semantic[1].dataModels) > 0
       THEN <<[id |-> <<"data_models">>, title |-> <<"Data Models">>,
               type |-> "datamodel", canExpand |-> TRUE,
               detail |-> Some([modelCount |-> Len(semantic[1].dataModels),
                                models     |-> Take(semantic[1].dataModels, 5)]),
               full |-> None]>>
       ELSE <<>>)
      \o
      (IF Len(semantic[1].apiEndpoints) > 0
       THEN <<[id |-> <<"api_endpoints">>, title |-> <<"API Endpoints">>,
               type |-> "api", canExpand |-> TRUE,
               detail |-> Some([endpointCount |-> Len(semantic[1].apiEndpoints),
                                endpoints     |-> Take(semantic[1].apiEndpoints, 10)]),
               full |-> None]>>
       ELSE <<>>)

\* buildExpandableSections(surface, structural, semantic)
buildExpandableSections(surface, structural, semantic) ==
    [i \in 1..Min(MaxModuleSections, Len(surface.identifiedModules)) |->
        ModuleSection(surface.identifiedModules[i], structural)]
    \o SemanticSections(semantic)

\* buildAnalysisResult: warnings and partialFailures are attached by the
\* orchestrator afterwards (an absent list is the empty list)
buildAnalysisResult(analysisId, source, depth, surface, structural, semantic) ==
    [analysisId      |-> analysisId,
     source          |-> source,
     depth           |-> depth,
     estimatedTokens |-> surface.estimatedTokens,
     sections        |-> buildExpandableSections(surface, structural, semantic),
     warnings        |-> <<>>,
     partialFailures |-> <<>>]

\* section.id.replace("module_", "").replace(/_/g, "/")
ModulePathOfSectionId(id) ==
    LET rest == IF Len(id) > 0 /\ id[1] = "module_" THEN Tail(id) ELSE id IN
    [i \in DOMAIN rest |-> IF rest[i] = "_" THEN "/" ELSE rest[i]]

\* the guard of expandSection: if (!section || !section.canExpand) return null
Expandable(sections, i) == i # 0 /\ sections[i].canExpand

\* the top-symbol view of a report's first symbols
TopSymbols(report) ==
    [k \in 1..Min(TopSymbolCount, Len(report.symbols)) |-> [name |-> report.symbols[k].name]]

\* the body of expandSection once the section is found and expandable: a deep
\* copy of the section with detail or full re-derived from the reports
ExpandedCopy(section, level, structural, semantic) ==
    IF section.type = "module"
    THEN LET structuralData == FindReport(structural, ModulePathOfSectionId(section.id)) IN
         IF structuralData = None THEN section
         ELSE IF level = "detail"
              THEN [section EXCEPT !.detail =
                      Some([exports     |-> structuralData[1].exports,
                            topSymbols  |-> TopSymbols(structuralData[1]),
                            importCount |-> structuralData[1].importCount])]
              ELSE [section EXCEPT !.full = Some(structuralData[1])]
    ELSE IF section.type = "pattern" /\ semantic # None
    THEN IF level = "detail"
         THEN [section EXCEPT !.detail =
                 Some([patterns |-> Take(semantic[1].patterns, TopPatternCount)])]
         ELSE [section EXCEPT !.full = Some([patterns |-> semantic[1].patterns])]
    ELSE IF section.type = "datamodel" /\ semantic # None
    THEN IF level = "detail"
         THEN [section EXCEPT !.detail =
                 Some([models |-> Take(semantic[1].dataModels, 10)])]
         ELSE [section EXCEPT !.full = Some([models |-> semantic[1].dataModels])]
    ELSE IF section.type = "api" /\ semantic # None
    THEN IF level = "detail"
         THEN [section EXCEPT !.detail =
                 Some([endpoints |-> Take(semantic[1].apiEndpoints, 20)])]
         ELSE [section EXCEPT !.full = Some([endpoints |-> semantic[1].apiEndpoints])]
    ELSE section

\* expandSection(result, sectionId, level, structural, semantic)
expandSection(result, sectionId, level, structural, semantic) ==
    LET i == First({n \in 1..Len(result.sections) : result.sections[n].id = sectionId}) IN
    IF ~Expandable(result.sections, i) THEN None
    ELSE Some(ExpandedCopy(result.sections[i], level, structural, semantic))

\* the two error reports of expandAnalysisSection
ErrAnalysisNotFound == "Analysis not found in cache. It may have expired."

ErrSectionNotFound == "Section not found or cannot be expanded."

\* expandSection filling in the cached section itself instead of a copy
expandAnalysisSectionInPlace(c, analysisId, sectionId, level, t) ==
    LET looked == getByAnalysisId(c, analysisId, t) IN
    IF looked.value = None
    THEN [cache |-> looked.cache, section |-> None, error |-> Some(ErrAnalysisNotFound)]
    ELSE LET cached   == looked.value[1]
             expanded == expandSection(cached.result, sectionId, level,
                                       cached.structural, cached.semantic)
             e == First({n \in 1..Len(c) : c[n].value.result.analysisId = analysisId})
             k == First({n \in 1..Len(cached.result.sections) :
                           cached.result.sections[n].id = sectionId})
         IN IF expanded = None
            THEN [cache |-> looked.cache, section |-> None,
                  error |-> Some(ErrSectionNotFound)]
            ELSE [cache   |-> [looked.cache EXCEPT
                                 ![e].value.result.sections[k] = expanded[1]],
                  section |-> expanded, error |-> None]

\* expandAnalysisSection(analysisId, sectionId, level) at time t: the cache
\* afterwards, the section returned and the error reported
expandAnalysisSection(c, analysisId, sectionId, level, t) ==
    LET looked == getByAnalysisId(c, analysisId, t) IN
    IF looked.value = None
    THEN [cache |-> looked.cache, section |-> None, error |-> Some(ErrAnalysisNotFound)]
    ELSE LET cached   == looked.value[1]
             expanded == expandSection(cached.result, sectionId, level,
                                       cached.structural, cached.semantic)
         IN IF expanded = None
            THEN [cache |-> looked.cache, section |-> None,
                  error |-> Some(ErrSectionNotFound)]
            ELSE [cache |-> looked.cache, section |-> expanded, error |-> None]

-----------------------------------------------------------------------------
(* The orchestrator: orchestrateAnalysis and analyzeModulesInParallel *)

Depths == {"surface", "standard", "deep"}

\* the slots in which orchestrateAnalysis invocations are in flight at once
RunSlots == {1, 2}

\* String.prototype.toLowerCase on the letters the model uses
ToLowerCase(s) ==
    [i \in DOMAIN s |-> IF s[i] = "S" THEN "s" ELSE IF s[i] = "A" THEN "a"
                        ELSE IF s[i] = "Q" THEN "q" ELSE s[i]]

\* String.prototype.includes
Includes(hay, needle) ==
    \E i \in 0..(Len(hay) - Len(needle)) : SubSeq(hay, i + 1, i + Len(needle)) = needle

\* String.prototype.startsWith
StartsWith(hay, needle) ==
    Len(needle) <= Len(hay) /\ SubSeq(hay, 1, Len(needle)) = needle

\* f.toLowerCase().replace(/^\/|\/$/g, ""): one leading and one trailing slash go
FocusLower(f) ==
    LET l == ToLowerCase(f)
        a == IF Len(l) > 0 /\ l[1] = "/" THEN Tail(l) ELSE l
    IN IF Len(a) > 0 /\ a[Len(a)] = "/" THEN SubSeq(a, 1, Len(a) - 1) ELSE a

\* the predicate of the focus filter on one module
MatchesFocus(m, focus) ==
    \E k \in 1..Len(focus) :
        LET focusLower == FocusLower(focus[k])
            pathLower  == ToLowerCase(m.path)
            nameLower  == ToLowerCase(m.name)
        IN \/ Includes(pathLower, focusLower)
           \/ StartsWith(pathLower, focusLower)
           \/ Includes(focusLower, pathLower)
           \/ nameLower = focusLower

\* the focus filter applied even when it leaves nothing
FocusFilteredStrict(modules, focus) ==
    IF focus = None \/ Len(focus[1]) = 0 THEN modules
    ELSE SelectSeq(modules, LAMBDA m : MatchesFocus(m, focus[1]))

\* the modules left by the focus filter (all of them when none matches)
FocusFiltered(modules, focus) ==
    IF focus = None \/ Len(focus[1]) = 0 THEN modules
    ELSE LET filtered == SelectSeq(modules, LAMBDA m : MatchesFocus(m, focus[1])) IN
         IF Len(filtered) > 0 THEN filtered ELSE modules

\* the warning pushed when the filter matches nothing
FocusWarnings(modules, focus) ==
    IF focus # None /\ Len(focus[1]) > 0
       /\ Len(SelectSeq(modules, LAMBDA m : MatchesFocus(m, focus[1]))) = 0
    THEN <<"No modules matched focus filter. Analyzing all modules.">>
    ELSE <<>>

\* Math.min(modulesToAnalyze.length, Math.ceil(tokenBudget / 50000))
MaxModules(modules, tokenBudget) == Min(Len(modules), CeilDiv(tokenBudget, TokensPerModule))

\* Array.prototype.slice(0, n): a negative n counts from the end
SliceTo(s, n) ==
    IF n >= 0 THEN Take(s, n)
    ELSE IF Len(s) + n > 0 THEN Take(s, Len(s) + n) ELSE <<>>

\* the modules handed to analyzeModulesInParallel
ModulesToAnalyze(surface, focus, tokenBudget) ==
    LET filtered == FocusFiltered(surface.identifiedModules, focus) IN
    SliceTo(filtered, MaxModules(filtered, tokenBudget))

\* a slot in which no invocation has run yet
IdleRun ==
    [pc |-> "idle", source |-> <<>>, depth |-> "standard", includeSemantics |-> FALSE,
     tokenBudget |-> DEFAULT_TOKEN_BUDGET, focus |-> None, analysisId |-> 0,
     phase |-> "surface", tokensUsed |-> 0, warnings |-> <<>>, partialFailures |-> <<>>,
     surface |-> None, modulesToAnalyze |-> <<>>, batchStart |-> 0, pending |-> {},
     batchResults |-> <<>>, results |-> <<>>, tasks |-> <<>>, structural |-> <<>>,
     semantic |-> None, semanticOutcome |-> None, semanticBudget |-> None,
     result |-> None, error |-> None,
     extractCalls |-> {}, semanticCalls |-> 0, cacheSets |-> 0,
     tool |-> "none", call |-> "none", request |-> <<>>, cleanup |-> FALSE,
     released |-> 0, prior |-> None, answer |-> None, maxOutputTokens |-> None]

\* orchestrateAnalysis up to its first await (the call of surfaceAnalysis)
StartedRun(source, depth, includeSemantics, tokenBudget, focus, analysisId) ==
    [IdleRun EXCEPT
        !.pc = "surface",
        !.source = source,
        !.depth = depth,
        !.tokenBudget = IF tokenBudget = None \/ tokenBudget = Some(0)
                        THEN DEFAULT_TOKEN_BUDGET ELSE tokenBudget[1],
        !.includeSemantics = includeSemantics \/ depth = "deep",
        !.focus = focus,
        !.analysisId = analysisId]

\* the comparison misspelt
SurfaceOnlyMisspelt(depth) == depth = "shallow"

\* if (depth === "surface")
SurfaceOnly(depth) == depth = "surface"

\* the warning pushed when the surface estimate exceeds the budget
BudgetWarnings(tokensUsed, tokenBudget) ==
    IF tokensUsed > tokenBudget
    THEN <<"Repository size exceeds budget. Analysis may be incomplete.">>
    ELSE <<>>

\* every module still on the list goes into the batch
BatchPositionsUnbounded(run, i) ==
    {k \in 1..Len(run.modulesToAnalyze) : i < k}

\* the positions of modulesToAnalyze that form the batch starting after i
BatchPositions(run, i) ==
    {k \in 1..Len(run.modulesToAnalyze) : i < k /\ k <= i + MAX_PARALLEL_STRUCTURAL}

\* state.tasks.push(...batchTasks) for the batch starting after i
WithBatchTasks(run, i) ==
    [run EXCEPT
        !.batchStart = i,
        !.tasks = @ \o [j \in 1..Cardinality(BatchPositions(run, i)) |->
                          [target |-> run.modulesToAnalyze[i + j].path,
                           status |-> "pending"]]]

\* the catch of phase 3 swallowing the error
OnSemanticErrorSwallowed(partialFailures, message) == partialFailures

\* partialFailures.push({ layer: "semantic", error }) in the catch of phase 3
OnSemanticError(partialFailures, message) ==
    Append(partialFailures, [layer |-> "semantic", error |-> message])

\* the catch of phase 2 swallowing the error
OnStructuralErrorSwallowed(partialFailures, message) == partialFailures

\* partialFailures.push({ layer: "structural", error }) in the catch of phase 2
OnStructuralError(partialFailures, message) ==
    Append(partialFailures, [layer |-> "structural", error |-> message])

\* an insertion made before the semantic part of the entry is written
SynthesizePartialEntry(run, c, t) ==
    LET built  == buildAnalysisResult(run.analysisId, run.source, run.depth,
                                      run.surface[1], run.structural, run.semantic)
        result == [built EXCEPT !.warnings = run.warnings,
                                !.partialFailures = run.partialFailures]
    IN [run   |-> [run EXCEPT !.phase = "complete", !.pc = "returned",
                              !.result = Some(result), !.cacheSets = @ + 1],
        cache |-> CacheSet(c, run.source,
                           [result |-> result, surface |-> run.surface[1],
                            structural |-> run.structural, semantic |-> None],
                           run.depth, t)]

\* phase 4 to the return: build the result, attach warnings and failures,
\* insert it into the cache
Synthesize(run, c, t) ==
    LET built  == buildAnalysisResult(run.analysisId, run.source, run.depth,
                                      run.surface[1], run.structural, run.semantic)
        result == [built EXCEPT !.warnings = run.warnings,
                                !.partialFailures = run.partialFailures]
    IN [run   |-> [run EXCEPT !.phase = "complete", !.pc = "returned",
                              !.result = Some(result), !.cacheSets = @ + 1],
        cache |-> CacheSet(c, run.source,
                           [result |-> result, surface |-> run.surface[1],
                            structural |-> run.structural, semantic |-> run.semantic],
                           run.depth, t)]

\* Math.min(8192, tokenBudget - state.tokensUsed)
SemanticTokenBudget(run) == Min(SemanticTokenCap, run.tokenBudget - run.tokensUsed)

\* the warning of the branch without semantics (SEMANTIC_COMPLEXITY_THRESHOLD)
ComplexityWarnings(surface) ==
    IF surface.complexity # NaN /\ surface.complexity > 50
    THEN <<"Complexity score suggests semantic analysis would be valuable.">>
    ELSE <<>>

\* from the end of phase 2 to the next await or to the return
AfterStructural(run, c, t) ==
    IF run.includeSemantics
    THEN [run   |-> [run EXCEPT !.phase = "semantic", !.pc = "semantic",
                                !.semanticCalls = @ + 1,
                                !.semanticBudget = Some(SemanticTokenBudget(run))],
          cache |-> c]
    ELSE Synthesize([run EXCEPT !.phase = "synthesis",
                                !.warnings = @ \o ComplexityWarnings(run.surface[1])],
                    c, t)

\* the surface-only branch: a result is built and returned
SurfaceOnlyReturn(run, c) ==
    LET built == buildAnalysisResult(run.analysisId, run.source, run.depth,
                                     run.surface[1], <<>>, None)
    IN [run   |-> [run EXCEPT !.pc = "returned",
                              !.result = Some([built EXCEPT !.warnings = run.warnings])],
        cache |-> c]

\* surfaceAnalysis resolved: the code from there to the next await or return
SurfaceResolved(run, c, t) ==
    LET surface == SurfaceOf(run.source)
        r1 == [run EXCEPT
                 !.surface = Some(surface),
                 !.phase = "structural",
                 !.tokensUsed = surface.estimatedTokens,
                 !.warnings = @ \o BudgetWarnings(surface.estimatedTokens, run.tokenBudget)]
    IN IF SurfaceOnly(run.depth) THEN SurfaceOnlyReturn(r1, c)
       ELSE LET r2 == [r1 EXCEPT
                         !.warnings = @ \o FocusWarnings(surface.identifiedModules, run.focus),
                         !.modulesToAnalyze =
                             ModulesToAnalyze(surface, run.focus, run.tokenBudget)]
            IN IF Len(r2.modulesToAnalyze) = 0
               THEN AfterStructural(r2, c, t)
               ELSE [run |-> [WithBatchTasks(r2, 0) EXCEPT !.pc = "loading"], cache |-> c]

\* a catch around surfaceAnalysis that hands back an empty result
SurfaceRejectedPartial(run, c) ==
    [run   |-> [run EXCEPT
                  !.pc = "failed", !.error = Some("surface analysis failed"),
                  !.result = Some(buildAnalysisResult(
                                 run.analysisId, run.source, run.depth,
                                 [identifiedModules |-> <<>>, estimatedTokens |-> 0,
                                  complexity |-> 0],
                                 <<>>, None))],
     cache |-> c]

\* surfaceAnalysis rejected: nothing catches it, orchestrateAnalysis rejects
SurfaceRejected(run, c) ==
    [run   |-> [run EXCEPT !.pc = "failed", !.error = Some("surface analysis failed")],
     cache |-> c]

\* the files of the batch are loaded and analyzeModulesStructurally maps over
\* the batch: a module with no loaded file resolves to null at once, for every
\* other one structuralAnalysis is called
FilesLoaded(run) ==
    LET batch   == BatchPositions(run, run.batchStart)
        called  == {k \in batch :
                       ExtractionOutcome(run.modulesToAnalyze[k].path) # "nofiles"}
    IN [run EXCEPT
          !.pc = "extracting",
          !.pending = called,
          !.batchResults = [j \in 1..Cardinality(batch) |-> None],
          !.extractCalls = @ \cup {run.modulesToAnalyze[k].path : k \in called}]

\* the message of the error structuralAnalysis throws for a module
ExtractionError(path) == <<"cannot analyse ">> \o path

\* what the per-module try/catch of analyzeModulesStructurally yields
ExtractionResult(path) ==
    IF ExtractionOutcome(path) = "ok" THEN Some(StructuralReport(path)) ELSE None

\* the results of a batch kept in the order the calls settle in
ExtractionSettledInCompletionOrder(run, k) ==
    [run EXCEPT
       !.pending = @ \ {k},
       !.batchResults[First({j \in 1..Len(run.batchResults) :
                                run.batchResults[j] = None})] =
           ExtractionResult(run.modulesToAnalyze[k].path)]

\* the structuralAnalysis call of the module at position k settles
ExtractionSettled(run, k) ==
    [run EXCEPT
       !.pending = @ \ {k},
       !.batchResults[k - run.batchStart] =
           ExtractionResult(run.modulesToAnalyze[k].path)]

\* batchResults.filter(Boolean)
RECURSIVE Present(_)
Present(options) ==
    IF options = <<>> THEN <<>> ELSE Head(options) \o Present(Tail(options))

\* the status a batch task gets from batchResults.find(...)
TaskStatus(task, reports) ==
    IF FindReport(reports, task.target) # None THEN "completed" ELSE "failed"

\* Promise.all of the batch resolved: task statuses, results.push, then the next
\* batch or the end of phase 2
BatchResolved(run, c, t) ==
    LET reports == Present(run.batchResults)
        first   == Len(run.tasks) - Len(run.batchResults)
        r1 == [run EXCEPT
                 !.results = @ \o reports,
                 !.batchResults = <<>>,
                 !.tasks = [j \in 1..Len(run.tasks) |->
                              IF j > first
                              THEN [run.tasks[j] EXCEPT
                                      !.status = TaskStatus(run.tasks[j], reports)]
                              ELSE run.tasks[j]]]
        next == run.batchStart + MAX_PARALLEL_STRUCTURAL
    IN IF next < Len(run.modulesToAnalyze)
       THEN [run |-> [WithBatchTasks(r1, next) EXCEPT !.pc = "loading"], cache |-> c]
       ELSE AfterStructural([r1 EXCEPT !.structural = r1.results], c, t)

\* an error escapes analyzeModulesInParallel: the catch of phase 2 records it
\* and the run goes on with structural = []
StructuralRejected(run, c, t) ==
    AfterStructural([run EXCEPT
                       !.partialFailures =
                           OnStructuralError(@, <<"structural analysis failed">>),
                       !.pending = {}, !.batchResults = <<>>],
                    c, t)

\* maxOutputTokens: options.tokenBudget || 8192 in semanticAnalysis, the limit
\* generateJsonWithGemini hands to the service
MaxOutputTokens(tokenBudget) ==
    IF tokenBudget = 0 THEN SemanticDefaultTokens ELSE tokenBudget

\* semanticAnalysis settled: "ok" resolves with a report, "nokey" is the throw
\* of the missing GEMINI_API_KEY, "fail" a failure of the service call
SemanticSettled(run, outcome, c, t) ==
    Synthesize([run EXCEPT
                  !.semanticOutcome = Some(outcome),
                  !.maxOutputTokens = IF outcome = "nokey" THEN None
                                      ELSE Some(MaxOutputTokens(run.semanticBudget[1])),
                  !.semantic = IF outcome = "ok" THEN Some(SemanticReport) ELSE None,
                  !.partialFailures =
                      IF outcome = "ok" THEN @
                      ELSE OnSemanticError(@, IF outcome = "nokey"
                                              THEN <<"requires GEMINI_API_KEY">>
                                              ELSE <<"service failure">>),
                  !.phase = "synthesis"],
               c, t)

-----------------------------------------------------------------------------
(* The tools that resolve a source (src/mcp/tools) *)

\* the tools: analyze_repo as analyze.ts has it, analyze_repo as the file that
\* defers the cleanup has it, query_repo, find_patterns, trace_dataflow
Tools == {"analyze", "analyze_deferred", "query", "patterns", "dataflow"}

\* if (cleanup) await cleanup()
Cleanup(run) == [run EXCEPT !.released = @ + (IF run.cleanup THEN 1 ELSE 0)]

\* the finally block of analyze.ts, find_patterns and trace_dataflow
Finally(run, outcome) == [Cleanup(run) EXCEPT !.call = outcome]

\* the catch block of query.ts and of the deferring analyze_repo: clean up, rethrow
CatchAndRethrow(run) == [Cleanup(run) EXCEPT !.call = "failed"]

\* a return from the try block of query.ts and of the deferring analyze_repo
ReturnFromTry(run) == [run EXCEPT !.call = "returned"]

\* the analysisId of the last analyze_repo call on the same source that
\* returned and is still on record in a slot
PriorAnalysis(rs, request) ==
    LET done == {q \in DOMAIN rs :
                    /\ rs[q].tool \in {"analyze", "analyze_deferred"}
                    /\ rs[q].call = "returned"
                    /\ rs[q].request = request}
    IN IF done = {} THEN None
       ELSE Some(rs[CHOOSE q \in done : \A o \in done :
                                            rs[o].analysisId <= rs[q].analysisId].analysisId)

\* the tool call, from resolveSource to its first await after it; n numbers
\* the call
ToolStarted(tool, request, depth, n, rs, c, t) ==
    LET resolved == resolveSource(request, n)
        base     == [tool |-> tool, call |-> "pending", request |-> request,
                     cleanup |-> resolved.cleanup,
                     prior |-> PriorAnalysis(rs, request)]
        run(from) == [from EXCEPT !.tool = base.tool, !.call = base.call,
                                  !.request = base.request, !.cleanup = base.cleanup,
                                  !.prior = base.prior]
        analysis(d) == StartedRun(resolved.repoPath, d, FALSE, None, None, n)
        got      == CacheGet(c, resolved.repoPath, t)
    IN IF tool \in {"analyze", "analyze_deferred"}
       THEN [run |-> run(analysis(depth)), cache |-> c]
       ELSE IF tool = "query"
       THEN IF got.value # None
            THEN [run   |-> run([IdleRun EXCEPT
                                   !.pc = "answering", !.source = resolved.repoPath,
                                   !.answer = Some(got.value[1].result.analysisId)]),
                  cache |-> got.cache]
            ELSE [run |-> run(analysis("standard")), cache |-> got.cache]
       ELSE [run   |-> run([IdleRun EXCEPT !.pc = "scanning",
                                           !.source = resolved.repoPath]),
             cache |-> c]

\* orchestrateAnalysis has returned or thrown: the rest of the tool's try
\* block up to the next await, or its catch or finally block
ToolResumed(run, c, t) ==
    LET got == CacheGet(c, run.source, t) IN
    IF run.tool = "analyze"
    THEN [run   |-> Finally(run, IF run.pc = "returned" THEN "returned" ELSE "failed"),
          cache |-> c]
    ELSE IF run.tool = "analyze_deferred"
    THEN [run   |-> IF run.pc = "returned" THEN ReturnFromTry(run)
                    ELSE CatchAndRethrow(run),
          cache |-> c]
    ELSE IF run.pc = "failed"
    THEN [run |-> CatchAndRethrow(run), cache |-> c]
    ELSE IF got.value = None
    THEN [run |-> CatchAndRethrow(run), cache |-> got.cache]
    ELSE [run   |-> [run EXCEPT !.pc = "answering",
                                !.answer = Some(run.result[1].analysisId)],
          cache |-> got.cache]

\* query_repo has read its files and got its answer, from Gemini or from the
\* keyword fallback
QueryAnswered(run) == ReturnFromTry([run EXCEPT !.pc = "answered"])

\* surfaceAnalysis of find_patterns or trace_dataflow settled
ScanSettled(run, ok) ==
    IF ok THEN [run EXCEPT !.pc = "generating"]
    ELSE Finally([run EXCEPT !.pc = "aborted"], "failed")

\* generateJsonWithGemini of find_patterns or trace_dataflow settled
GenerateSettled(run, ok) ==
    IF ok THEN Finally([run EXCEPT !.pc = "answered"], "returned")
    ELSE Finally([run EXCEPT !.pc = "aborted"], "failed")

-----------------------------------------------------------------------------
(* The progress spinner of the logger (src/core/logger.ts) *)

\* the Logger as constructed: not quiet, no spinner, no interval timer
NewLogger == [quiet |-> FALSE, currentSpinner |-> None, timers |-> {}]

\* stopSpinner(): clearInterval of the current spinner's timer, if there is
\* one, and currentSpinner = null
stopSpinner(lg) ==
    [lg EXCEPT !.currentSpinner = None,
               !.timers = IF lg.currentSpinner = None THEN @
                          ELSE @ \ {lg.currentSpinner[1]}]

\* startSpinner(text): nothing when quiet; else stopSpinner() and a new
\* spinner with a new interval timer, named here by the run and the phase
startSpinner(lg, id, phase) ==
    IF lg.quiet THEN lg
    ELSE [stopSpinner(lg) EXCEPT !.currentSpinner = Some(<<id, phase>>),
                                 !.timers = @ \cup {<<id, phase>>}]

\* the structural phase ends, by line 409 or by the catch at 425, and the
\* semantic phase starts its spinner at 436 when semantics are wanted
SpinnerAfterStructural(lg, after) ==
    IF after.pc = "semantic"
    THEN startSpinner(stopSpinner(lg), after.analysisId, "semantic")
    ELSE stopSpinner(lg)

\* the startSpinner and stopSpinner calls orchestrateAnalysis makes in the
\* step that takes a run from one await to the next
LoggerAfter(lg, before, after) ==
    IF before.pc # "surface" /\ after.pc = "surface"
    THEN startSpinner(lg, after.analysisId, "surface")
    ELSE IF before.pc = "surface" /\ after.pc \notin {"surface", "failed"}
    THEN IF after.depth = "surface" THEN stopSpinner(lg)
         ELSE LET structural ==
                      startSpinner(stopSpinner(lg), after.analysisId, "structural")
              IN IF after.pc = "loading" THEN structural
                 ELSE SpinnerAfterStructural(structural, after)
    ELSE IF before.pc \in {"loading", "extracting"}
            /\ after.pc \in {"semantic", "returned"}
    THEN SpinnerAfterStructural(lg, after)
    ELSE IF before.pc = "semantic" /\ after.pc = "returned"
    THEN stopSpinner(lg)
    ELSE lg

-----------------------------------------------------------------------------
(* The retry wrapper of the Gemini client (src/core/gemini.ts) *)

\* what an attempt settles with: a value it resolves with, or a value it
\* throws, which is an Error or not, with its message or its String(...)
Resolved(v) == [ok |-> TRUE, value |-> v, isError |-> FALSE, message |-> <<>>]

Thrown(isError, message) ==
    [ok |-> FALSE, value |-> 0, isError |-> isError, message |-> message]

\* the ways the wrapped call settles
RetryOutcomes ==
    {Resolved(1), Resolved(2),
     Thrown(TRUE, <<"4", "2", "9">>),
     Thrown(TRUE, <<"Q", "u", "o", "t", "a">>),
     Thrown(TRUE, <<"t", "i", "m", "e", "o", "u", "t">>),
     Thrown(TRUE, <<"4", "0", "0">>),
     Thrown(FALSE, <<"5", "0", "3">>)}

\* the substrings isRetryableError looks for
RetryableMarks ==
    {<<"4", "2", "9">>, <<"r", "a", "t", "e", " ", "l", "i", "m", "i", "t">>,
     <<"q", "u", "o", "t", "a">>,
     <<"5", "0", "0">>, <<"5", "0", "2">>, <<"5", "0", "3">>, <<"5", "0", "4">>,
     <<"n", "e", "t", "w", "o", "r", "k">>, <<"t", "i", "m", "e", "o", "u", "t">>,
     <<"e", "c", "o", "n", "n", "r", "e", "s", "e", "t">>}

\* every error counts as retryable
isRetryableErrorAlways(error) == TRUE

\* isRetryableError(error)
isRetryableError(error) ==
    /\ error.isError
    /\ \E mark \in RetryableMarks : Includes(ToLowerCase(error.message), mark)

\* error instanceof Error ? error : new Error(String(error))
AsError(error) == [error EXCEPT !.isError = TRUE]

\* calculateDelay(attempt), the jitter being tenths of the exponential delay
calculateDelay(attempt, tenths) ==
    LET exponentialDelay == BASE_DELAY_MS * 2 ^ attempt
        jitter           == (tenths * exponentialDelay) \div 10
    IN Min(exponentialDelay + jitter, MAX_DELAY_MS)

\* no invocation of withRetry yet
IdleRetry ==
    [status |-> "idle", attempt |-> 0, history |-> <<>>, lastError |-> None,
     value |-> None, error |-> None, delay |-> 0]

\* withRetry(fn) up to its first await fn()
RetryEntered == [IdleRetry EXCEPT !.status = "calling"]

\* the awaited fn() settles: return its value, or record the error and
\* sleep before the next attempt, or leave the loop and throw lastError
AttemptSettled(rt, outcome, tenths) ==
    LET seen == [rt EXCEPT !.history = Append(@, outcome)] IN
    IF outcome.ok
    THEN [seen EXCEPT !.status = "returned", !.value = Some(outcome.value)]
    ELSE LET caught == [seen EXCEPT !.lastError = Some(AsError(outcome))] IN
         IF rt.attempt < MAX_RETRIES /\ isRetryableError(outcome)
         THEN [caught EXCEPT !.status = "sleeping",
                             !.delay = calculateDelay(rt.attempt, tenths)]
         ELSE [caught EXCEPT !.status = "failed", !.error = caught.lastError]

\* sleep(delay) resolves: attempt++ and the next await fn()
SleepResolved(rt) == [rt EXCEPT !.status = "calling", !.attempt = @ + 1, !.delay = 0]

-----------------------------------------------------------------------------
(* State machine *)

\* no call was made by the last step
NoResp ==
    [op |-> "none", source |-> <<>>, analysisId |-> 0, sectionId |-> <<>>,
     level |-> "", entry |-> None, found |-> FALSE, section |-> None,
     error |-> None, removed |-> 0]

\* the call get(source) and what it returned
GetResponse(source, got) ==
    [NoResp EXCEPT !.op = "get", !.source = source, !.entry = got.value,
                   !.found = got.value # None,
                   !.removed = Len(cache) - Len(got.cache)]

\* the call has(source) and what it returned
HasResponse(source, got) ==
    [NoResp EXCEPT !.op = "has", !.source = source, !.found = got.value,
                   !.removed = Len(cache) - Len(got.cache)]

\* the call expandAnalysisSection(analysisId, sectionId, level) and what it
\* returned
ExpandResponse(analysisId, sectionId, level, out) ==
    [NoResp EXCEPT !.op = "expand", !.analysisId = analysisId,
                   !.sectionId = sectionId, !.level = level,
                   !.found = out.section # None, !.section = out.section,
                   !.error = out.error,
                   !.removed = Len(cache) - Len(out.cache)]

Finished(run) == run.pc \in {"idle", "returned", "failed"}

Init ==
    /\ cache = <<>>
    /\ now = 0
    /\ runs = [r \in RunSlots |-> IdleRun]
    /\ nextId = 1
    /\ ticks = 0
    /\ resp = NoResp
    /\ retry = IdleRetry
    /\ logger = NewLogger

\* a caller invokes orchestrateAnalysis(source, options)
StartRun(r, source, depth, includeSemantics, tokenBudget, focus) ==
    /\ nextId <= MaxRuns
    /\ Finished(runs[r])
    /\ \A q \in RunSlots : q < r => ~Finished(runs[q])
    /\ runs' = [runs EXCEPT ![r] = StartedRun(source, depth, includeSemantics,
                                              tokenBudget, focus, nextId)]
    /\ logger' = LoggerAfter(logger, runs[r], runs'[r])
    /\ nextId' = nextId + 1
    /\ resp' = NoResp
    /\ UNCHANGED <<retry, cache, now, ticks>>

\* the continuation of run r puts it in state eff.run and the cache in eff.cache
Continue(r, eff) ==
    /\ runs' = [runs EXCEPT ![r] = eff.run]
    /\ cache' = eff.cache
    /\ logger' = LoggerAfter(logger, runs[r], eff.run)
    /\ resp' = NoResp
    /\ UNCHANGED <<retry, now, nextId, ticks>>

SurfaceDone(r) ==
    /\ runs[r].pc = "surface"
    /\ Continue(r, SurfaceResolved(runs[r], cache, now))

SurfaceFail(r) ==
    /\ runs[r].pc = "surface"
    /\ Continue(r, SurfaceRejected(runs[r], cache))

LoadDone(r) ==
    /\ runs[r].pc = "loading"
    /\ Continue(r, [run |-> FilesLoaded(runs[r]), cache |-> cache])

StructuralFail(r) ==
    /\ runs[r].pc = "loading"
    /\ Continue(r, StructuralRejected(runs[r], cache, now))

ExtractDone(r, k) ==
    /\ runs[r].pc = "extracting"
    /\ k \in runs[r].pending
    /\ Continue(r, [run |-> ExtractionSettled(runs[r], k), cache |-> cache])

BatchDone(r) ==
    /\ runs[r].pc = "extracting"
    /\ runs[r].pending = {}
    /\ Continue(r, BatchResolved(runs[r], cache, now))

SemanticDone(r, outcome) ==
    /\ runs[r].pc = "semantic"
    /\ Continue(r, SemanticSettled(runs[r], outcome, cache, now))

\* the steps by which the clock advances
TickSteps == {DEFAULT_TTL_MS, DEFAULT_TTL_MS + 1}

Tick(d) ==
    /\ ticks < MaxTicks
    /\ now' = now + d
    /\ ticks' = ticks + 1
    /\ resp' = NoResp
    /\ UNCHANGED <<retry, logger, cache, runs, nextId>>

\* analysisCache.get(source)
Get(source) ==
    LET got == CacheGet(cache, source, now) IN
    /\ cache' = got.cache
    /\ resp' = GetResponse(source, got)
    /\ UNCHANGED <<retry, logger, now, runs, nextId, ticks>>

\* analysisCache.has(source)
Has(source) ==
    LET got == CacheHas(cache, source, now) IN
    /\ cache' = got.cache
    /\ resp' = HasResponse(source, got)
    /\ UNCHANGED <<retry, logger, now, runs, nextId, ticks>>

\* the section ids a caller asks for
SectionIds ==
    {ModuleSectionId(p) : p \in ModulePaths}
    \cup {<<"patterns_overview">>, <<"no_such_section">>}

Levels == {"detail", "full"}

\* the expand_section tool: expandAnalysisSection(analysisId, sectionId, level)
Expand(analysisId, sectionId, level) ==
    LET out == expandAnalysisSection(cache, analysisId, sectionId, level, now) IN
    /\ cache' = out.cache
    /\ resp' = ExpandResponse(analysisId, sectionId, level, out)
    /\ UNCHANGED <<retry, logger, now, runs, nextId, ticks>>

\* the options callers pass: <<source, depth, includeSemantics>>
Requests ==
    ({SrcA} \X Depths \X BOOLEAN)
    \cup {<<SrcRoot, "surface", FALSE>>, <<SrcRoot, "standard", FALSE>>,
          <<SrcBig, "surface", FALSE>>}

\* a caller starts an analysis in one of the slots
StartAny(slots, requests) ==
    \E r \in slots, q \in requests : StartRun(r, q[1], q[2], q[3], None, None)

\* an invocation in flight takes its next step
Progress ==
    \/ \E r \in RunSlots : SurfaceDone(r)
    \/ \E r \in RunSlots : SurfaceFail(r)
    \/ \E r \in RunSlots : LoadDone(r)
    \/ \E r \in RunSlots : StructuralFail(r)
    \/ \E r \in RunSlots, k \in 1..Len(BigModules) : ExtractDone(r, k)
    \/ \E r \in RunSlots : BatchDone(r)
    \/ \E r \in RunSlots, outcome \in {"ok", "nokey", "fail"} : SemanticDone(r, outcome)

\* analyses, any two of them in flight at once
Next ==
    \/ StartAny(RunSlots, Requests)
    \/ Progress

Spec == Init /\ [][Next]_vars

\* the follow-up calls on the cache
CacheCall ==
    \/ \E source \in Sources : Get(source)
    \/ \E source \in Sources : Has(source)
    \/ \E id \in 0..(nextId - 1), sectionId \in SectionIds, level \in Levels :
          Expand(id, sectionId, level)

\* the requests of the cache scenario: both spellings of one directory, and
\* the root directory
CacheRequests ==
    {<<SrcA, "standard", TRUE>>, <<SrcASlash, "standard", FALSE>>,
     <<SrcRoot, "standard", FALSE>>}

\* no analysis is in flight
Quiet == \A r \in RunSlots : Finished(runs[r])

\* the client has taken the response of its last call
Ready == resp = NoResp

\* the client takes the response of its call
Receive ==
    /\ ~Ready
    /\ resp' = NoResp
    /\ UNCHANGED <<retry, logger, cache, now, runs, nextId, ticks>>

\* a client that makes one call at a time: analyses one after the other,
\* follow-up calls on the cache between them, and the clock
NextCache ==
    \/ Ready /\ StartAny({1}, CacheRequests)
    \/ Ready /\ Progress
    \/ Ready /\ \E d \in TickSteps : Tick(d)
    \/ Ready /\ Quiet /\ CacheCall
    \/ Receive

SpecCache == Init /\ [][NextCache]_vars

-----------------------------------------------------------------------------
(* A cache that earlier analyses have filled to its capacity *)

\* the i-th of the directories analysed earlier
DirName(i) == <<"d">> \o TwoDigits(i)

\* the reports the structural phase of a standard analysis of source kept
EarlierStructural(source) ==
    LET modules == SurfaceOf(source).identifiedModules
        kept    == SelectSeq(modules, LAMBDA m : ExtractionOutcome(m.path) = "ok")
    IN [i \in 1..Len(kept) |-> StructuralReport(kept[i].path)]

\* the entry the i-th earlier analysis, a standard one without semantics that
\* returned at time i, left in the cache
EarlierEntry(source, i) ==
    LET surface    == SurfaceOf(source)
        structural == EarlierStructural(source)
        result     == buildAnalysisResult(0 - i, source, "standard", surface,
                                          structural, None)
    IN NewEntry(source,
                [result |-> result, surface |-> surface,
                 structural |-> structural, semantic |-> None],
                "standard", i)

\* MAX_CACHE_ENTRIES analyses of distinct directories have returned, the first
\* of them the analysis of source first
InitFull ==
    /\ \E first \in {SrcRoot, DirName(1)} :
          cache = [i \in 1..MAX_CACHE_ENTRIES |->
                      IF i = 1 THEN EarlierEntry(first, 1)
                      ELSE EarlierEntry(DirName(i), i)]
    /\ now = MAX_CACHE_ENTRIES
    /\ runs = [r \in RunSlots |-> IdleRun]
    /\ nextId = 1
    /\ ticks = 0
    /\ resp = NoResp
    /\ retry = IdleRetry
    /\ logger = NewLogger

\* analyses one after the other
NextCapacity ==
    \/ StartAny({1}, Requests)
    \/ Progress

SpecCapacity == InitFull /\ [][NextCapacity]_vars

\* the analyses of the end-to-end scenarios: source, depth, includeSemantics
ScenarioRequests ==
    (ScenarioSources \X {"standard"} \X {FALSE})
        \cup {<<SrcNested, "deep", TRUE>>, <<SrcEmpty, "surface", FALSE>>}

\* one run after the other on the directories of the scenarios
NextScenario ==
    \/ StartAny({1}, ScenarioRequests)
    \/ Progress

SpecScenario == Init /\ [][NextScenario]_vars

\* analyses of a directory with more modules than one batch holds
BatchRequests ==
    {<<SrcBig, "standard", FALSE>>, <<SrcBig, "deep", TRUE>>, <<SrcA, "standard", FALSE>>}

\* one run after the other
NextBatch ==
    \/ StartAny({1}, BatchRequests)
    \/ Progress

SpecBatch == Init /\ [][NextBatch]_vars

\* the tokenBudget options callers pass: none, zero, less than one module's
\* worth, one module's worth, a little more, negative numbers, the size of
\* directory "a" and a little more than it
Budgets ==
    {None, Some(0), Some(1), Some(TokensPerModule), Some(TokensPerModule + 1),
     Some(-1), Some(-TokensPerModule),
     Some(SurfaceOf(SrcA).estimatedTokens), Some(SurfaceOf(SrcA).estimatedTokens + 5)}

\* the focus options callers pass: none, one that matches two modules of
\* directory "a", one that matches none
Focuses == {None, Some(<<<<"b">>>>), Some(<<<<"z">>>>)}

\* one run after the other on directory "a", with a budget and a focus
NextBudget ==
    \/ \E b \in Budgets, f \in Focuses, sem \in BOOLEAN :
          StartRun(1, SrcA, "standard", sem, b, f)
    \/ Progress

SpecBudget == Init /\ [][NextBudget]_vars

\* a caller invokes withRetry
RetryStart ==
    /\ retry.status = "idle"
    /\ retry' = RetryEntered
    /\ UNCHANGED <<cache, now, runs, nextId, ticks, resp, logger>>

\* the attempt under way settles
AttemptDone(outcome, tenths) ==
    /\ retry.status = "calling"
    /\ retry' = AttemptSettled(retry, outcome, tenths)
    /\ UNCHANGED <<cache, now, runs, nextId, ticks, resp, logger>>

\* the timer of the backoff fires
SleepDone ==
    /\ retry.status = "sleeping"
    /\ retry' = SleepResolved(retry)
    /\ UNCHANGED <<cache, now, runs, nextId, ticks, resp, logger>>

NextRetry ==
    \/ RetryStart
    \/ \E outcome \in RetryOutcomes, tenths \in 0..2 : AttemptDone(outcome, tenths)
    \/ SleepDone

SpecRetry == Init /\ [][NextRetry]_vars

\* the wrapped call settles and timers fire
SpecRetryFair == SpecRetry /\ WF_vars(NextRetry)

\* the tool calls a client makes: tool, source, depth (of analyze_repo only)
ToolRequests ==
    {<<"analyze", SrcRoot, "surface">>, <<"analyze", SrcRoot, "standard">>,
     <<"analyze", SrcRemote, "standard">>, <<"analyze", SrcRemote, "deep">>,
     <<"analyze_deferred", SrcRemote, "standard">>,
     <<"query", SrcRoot, "standard">>, <<"query", SrcRemote, "standard">>,
     <<"patterns", SrcRemote, "surface">>, <<"dataflow", SrcRemote, "surface">>}

\* no tool call is under way in slot r
ToolIdle(run) == run.call # "pending"

\* a client calls a tool
ToolStart(r, tool, request, depth) ==
    /\ nextId <= MaxRuns
    /\ ToolIdle(runs[r])
    /\ LET eff == ToolStarted(tool, request, depth, nextId, runs, cache, now) IN
       /\ runs' = [runs EXCEPT ![r] = eff.run]
       /\ cache' = eff.cache
       /\ logger' = LoggerAfter(logger, runs[r], eff.run)
    /\ nextId' = nextId + 1
    /\ resp' = NoResp
    /\ UNCHANGED <<retry, now, ticks>>

\* orchestrateAnalysis settles and the tool that awaited it goes on
ToolSettle(r) ==
    /\ runs[r].call = "pending"
    /\ runs[r].tool \in {"analyze", "analyze_deferred", "query"}
    /\ runs[r].pc \in {"returned", "failed"}
    /\ Continue(r, ToolResumed(runs[r], cache, now))

\* query_repo returns its answer
QueryDone(r) ==
    /\ runs[r].call = "pending"
    /\ runs[r].pc = "answering"
    /\ Continue(r, [run |-> QueryAnswered(runs[r]), cache |-> cache])

\* the surfaceAnalysis call of find_patterns or trace_dataflow settles
ScanDone(r, ok) ==
    /\ runs[r].call = "pending"
    /\ runs[r].pc = "scanning"
    /\ Continue(r, [run |-> ScanSettled(runs[r], ok), cache |-> cache])

\* the Gemini call of find_patterns or trace_dataflow settles
GenerateDone(r, ok) ==
    /\ runs[r].call = "pending"
    /\ runs[r].pc = "generating"
    /\ Continue(r, [run |-> GenerateSettled(runs[r], ok), cache |-> cache])

\* one client, one tool call at a time
NextTools ==
    \/ \E q \in ToolRequests : ToolStart(1, q[1], q[2], q[3])
    \/ Progress
    \/ ToolSettle(1)
    \/ QueryDone(1)
    \/ \E ok \in BOOLEAN : ScanDone(1, ok)
    \/ \E ok \in BOOLEAN : GenerateDone(1, ok)

SpecTools == Init /\ [][NextTools]_vars

\* the tool calls of two clients on one local directory
SharedRequests ==
    {<<"query", SrcRoot, "standard">>, <<"analyze", SrcRoot, "standard">>,
     <<"analyze", SrcRoot, "deep">>}

\* a client calls a tool while other calls may be under way; the call takes
\* the lowest slot that is free
ToolStartShared(r, tool, request, depth) ==
    /\ \A o \in RunSlots : o < r => ~ToolIdle(runs[o])
    /\ ToolStart(r, tool, request, depth)

\* tool calls of several clients under way at once
NextShared ==
    \/ \E r \in RunSlots, q \in SharedRequests : ToolStartShared(r, q[1], q[2], q[3])
    \/ Progress
    \/ \E r \in RunSlots : ToolSettle(r)
    \/ \E r \in RunSlots : QueryDone(r)

SpecShared == Init /\ [][NextShared]_vars

-----------------------------------------------------------------------------
(* Properties of an analysis run *)

\* run r has just returned its result
Returns(r) == runs[r].pc # "returned" /\ runs'[r].pc = "returned"

\* C1, as the specification states it: a run of depth "surface" returns a
\* result whose sections list is empty, and calls neither the structural
\* extraction nor the semantic analysis
C1_SurfaceSectionsEmpty ==
    \A r \in RunSlots :
        (runs[r].depth = "surface" /\ runs[r].pc # "idle")
        => /\ runs[r].extractCalls = {}
           /\ runs[r].semanticCalls = 0
           /\ runs[r].pc = "returned" => runs[r].result[1].sections = <<>>

\* C1, amended: a run of depth "surface" calls neither the structural
\* extraction nor the semantic analysis, and the sections of its result are
\* one module section per identified module (the first ten), none of them
\* expandable and none carrying detail
C1_SurfaceSectionsNotExpandable ==
    \A r \in RunSlots :
        (runs[r].depth = "surface" /\ runs[r].pc # "idle")
        => /\ runs[r].extractCalls = {}
           /\ runs[r].semanticCalls = 0
           /\ runs[r].pc = "returned" =>
                LET sections == runs[r].result[1].sections
                    modules  == SurfaceOf(runs[r].source).identifiedModules
                IN /\ Len(sections) = Min(MaxModuleSections, Len(modules))
                   /\ \A i \in 1..Len(sections) :
                         /\ sections[i].type = "module"
                         /\ sections[i].id = ModuleSectionId(modules[i].path)
                         /\ ~sections[i].canExpand
                         /\ sections[i].detail = None
                         /\ sections[i].full = None

\* a surface run of a directory with more than MaxModuleSections modules has
\* returned
C1_Witness ==
    \E r \in RunSlots :
        /\ runs[r].depth = "surface"
        /\ runs[r].pc = "returned"
        /\ Len(runs[r].result[1].sections) = MaxModuleSections
        /\ Len(runs[r].surface[1].identifiedModules) > MaxModuleSections

\* C2: when the extraction of a module throws, the module has no report in the
\* merged structural list, the result's partialFailures holds exactly one
\* entry naming the module, and every other module with files is extracted
C2_ThrowingModuleRecorded ==
    \A r \in RunSlots :
        runs[r].pc = "returned" =>
            \A p \in runs[r].extractCalls :
                ExtractionOutcome(p) = "throws" =>
                    /\ FindReport(runs[r].structural, p) = None
                    /\ Cardinality({i \in 1..Len(runs[r].result[1].partialFailures) :
                                      runs[r].result[1].partialFailures[i].error
                                          = ExtractionError(p)}) = 1
                    /\ \A k \in 1..Len(runs[r].modulesToAnalyze) :
                          ExtractionOutcome(runs[r].modulesToAnalyze[k].path) # "nofiles"
                          => runs[r].modulesToAnalyze[k].path \in runs[r].extractCalls

\* C3: a run that returns a result, at any depth, has inserted it into the
\* cache, so that the lookup by its analysisId succeeds right after the return
C3_ReturnedResultCached ==
    [][\A r \in RunSlots :
          Returns(r) =>
              LET found == getByAnalysisId(cache', runs'[r].analysisId, now').value IN
              /\ found # None
              /\ found[1].result = runs'[r].result[1]]_vars

\* C4: when the semantic analysis that was requested fails, for want of a
\* credential or otherwise, the run returns a result built from the surface and
\* structural data alone, without semantic report, with exactly one
\* partialFailures entry of layer "semantic", and the result is in the cache
C4_SemanticFailureTolerated ==
    [][\A r \in RunSlots :
          (Returns(r) /\ runs[r].pc = "semantic"
           /\ runs'[r].semanticOutcome \in {Some("nokey"), Some("fail")})
          => LET run    == runs'[r]
                 result == run.result[1]
                 found  == getByAnalysisId(cache', run.analysisId, now').value
             IN /\ run.result # None
                /\ run.semantic = None
                /\ result.sections =
                       buildExpandableSections(run.surface[1], run.structural, None)
                /\ Cardinality({i \in 1..Len(result.partialFailures) :
                                  result.partialFailures[i].layer = "semantic"}) = 1
                /\ found # None
                /\ found[1].result = result
                /\ found[1].semantic = None]_vars

\* a run has returned after its semantic analysis found no credential, and its
\* result lies in the cache
C4_Witness ==
    \E r \in RunSlots :
        /\ runs[r].pc = "returned"
        /\ runs[r].semanticOutcome = Some("nokey")
        /\ runs[r].structural # <<>>
        /\ \E i \in 1..Len(cache) : cache[i].value.result = runs[r].result[1]

\* C10: when the surface scan fails the run fails with the error, produces no
\* result, and inserts nothing: the step leaves the cache as it was and no
\* entry ever carries the run's analysisId
C10_SurfaceFailureLeavesNothing ==
    [][\A r \in RunSlots :
          runs'[r].pc = "failed"
          => /\ runs'[r].error # None
             /\ runs'[r].result = None
             /\ runs'[r].cacheSets = 0
             /\ \A i \in 1..Len(cache') :
                   cache'[i].value.result.analysisId # runs'[r].analysisId
             /\ runs[r].pc # "failed" => cache' = cache]_vars

\* the surface scan of a run has failed while the cache held an entry
C10_Witness ==
    \E r \in RunSlots :
        /\ runs[r].pc = "failed"
        /\ runs[r].error # None
        /\ Len(cache) > 0

-----------------------------------------------------------------------------
(* Properties of the cache and of expand_section *)

\* C5: the cache never holds more than MAX_CACHE_ENTRIES entries, and the
\* insertion of a new key that finds it at capacity removes exactly one entry,
\* one that no other entry was created before
C5_CapacityRespected ==
    [][/\ Len(cache') <= MAX_CACHE_ENTRIES
       /\ \A r \in RunSlots :
             (/\ runs'[r].cacheSets > runs[r].cacheSets
              /\ Len(cache) >= MAX_CACHE_ENTRIES
              /\ KeyIdx(cache, generateKey(runs'[r].source)) = 0)
             => LET gone == {i \in 1..Len(cache) : KeyIdx(cache', cache[i].key) = 0} IN
                /\ Cardinality(gone) = 1
                /\ \A i \in gone, j \in 1..Len(cache) :
                      cache[i].createdAt <= cache[j].createdAt]_vars

\* position of the entry getByAnalysisId finds for an id, 0 when there is none
EntryOf(analysisId) ==
    First({i \in 1..Len(cache) : cache[i].value.result.analysisId = analysisId})

\* C6: a get made later than the entry's expiresAt returns a miss and removes
\* the entry; and whatever get, has or the lookup by analysisId return comes
\* from an entry whose expiresAt is not earlier than the time of the call
C6_ExpiredNeverServed ==
    [][LET i == KeyIdx(cache, generateKey(resp'.source))
           e == EntryOf(resp'.analysisId)
       IN /\ resp'.op = "get" =>
                /\ (i # 0 /\ now > cache[i].expiresAt)
                   => /\ resp'.entry = None
                      /\ KeyIdx(cache', generateKey(resp'.source)) = 0
                /\ resp'.entry # None
                   => /\ i # 0
                      /\ cache[i].expiresAt >= now
                      /\ resp'.entry = Some(cache[i].value)
          /\ (resp'.op = "has" /\ resp'.found)
             => i # 0 /\ cache[i].expiresAt >= now
          /\ (resp'.op = "expand" /\ resp'.section # None)
             => e # 0 /\ cache[e].expiresAt >= now]_vars

\* a get has found an expired entry under its key: it reported a miss and
\* deleted the entry
C6_Witness ==
    /\ resp.op = "get"
    /\ resp.entry = None
    /\ resp.removed = 1
    /\ now > DEFAULT_TTL_MS

\* the request names no analysis the cache holds unexpired, or no section of
\* it, or a section of it that cannot be expanded
Refusable(analysisId, sectionId) ==
    LET i == EntryOf(analysisId) IN
    \/ i = 0
    \/ now > cache[i].expiresAt
    \/ \A k \in 1..Len(cache[i].value.result.sections) :
          cache[i].value.result.sections[k].id # sectionId
    \/ \E k \in 1..Len(cache[i].value.result.sections) :
          /\ cache[i].value.result.sections[k].id = sectionId
          /\ ~cache[i].value.result.sections[k].canExpand

\* C7: an expand request naming an unknown or expired analysis, an unknown
\* section, or a section that cannot be expanded gets one of the two error
\* reports and no section
C7_RefusedWithoutSection ==
    [][(resp'.op = "expand" /\ Refusable(resp'.analysisId, resp'.sectionId))
       => /\ resp'.section = None
          /\ resp'.error \in {Some(ErrAnalysisNotFound), Some(ErrSectionNotFound)}]_vars

\* C8: expanding an expandable module section returns, at level "full", the
\* structural report of the module the section was built for and, at level
\* "detail", at most the first twenty symbols of that report
C8_ModuleSectionExpandsToItsReport ==
    [][(resp'.op = "expand" /\ EntryOf(resp'.analysisId) # 0
        /\ now <= cache[EntryOf(resp'.analysisId)].expiresAt)
       => LET cached   == cache[EntryOf(resp'.analysisId)].value
              sections == cached.result.sections
              k        == First({n \in 1..Len(sections) : sections[n].id = resp'.sectionId})
          IN (k # 0 /\ sections[k].type = "module" /\ sections[k].canExpand)
             => LET report == FindReport(cached.structural,
                                         cached.surface.identifiedModules[k].path)
                IN /\ report # None
                   /\ resp'.section # None
                   /\ resp'.level = "full" => resp'.section[1].full = report
                   /\ resp'.level = "detail" =>
                         /\ resp'.section[1].detail # None
                         /\ "topSymbols" \in DOMAIN resp'.section[1].detail[1]
                         /\ LET top == resp'.section[1].detail[1].topSymbols IN
                            /\ Len(top) = Min(TopSymbolCount, Len(report[1].symbols))
                            /\ \A n \in 1..Len(top) :
                                  top[n].name = report[1].symbols[n].name]_vars

\* C9: an expand call changes no entry of the cache (it deletes at most the
\* expired entry it reports as not found), and the same call made again
\* returns an equal section
C9_ExpandIsPure ==
    [][resp'.op = "expand"
       => /\ \A i \in 1..Len(cache') : \E j \in 1..Len(cache) : cache'[i] = cache[j]
          /\ resp'.error # Some(ErrAnalysisNotFound) => cache' = cache
          /\ LET again == expandAnalysisSection(cache', resp'.analysisId,
                                                resp'.sectionId, resp'.level, now')
             IN /\ again.section = resp'.section
                /\ again.error = resp'.error
                /\ again.cache = cache']_vars

\* an expand call has returned a module section with its full report
C9_Witness ==
    /\ resp.op = "expand"
    /\ resp.section # None
    /\ resp.section[1].full # None
    /\ Len(cache) > 0

-----------------------------------------------------------------------------
(* Properties of the orchestrator's phases *)

\* C11: a run that has returned a result, at any depth, has its phase equal to
\* "complete"
C11_ReturnedInPhaseComplete ==
    \A r \in RunSlots : runs[r].pc = "returned" => runs[r].phase = "complete"

-----------------------------------------------------------------------------
(* Properties of the tools that resolve a source *)

\* C12: when a tool call for which the resolver handed back a release action
\* has finished, by returning or by failing, the release action has been
\* invoked exactly once
C12_ReleasedExactlyOnce ==
    \A r \in RunSlots :
        (runs[r].call \in {"returned", "failed"} /\ runs[r].cleanup)
        => runs[r].released = 1

\* C13: a query_repo that returns, called on a source on which an
\* analyze_repo returned before and with the clock unchanged since, has
\* started no analysis run of its own and returns the analysisId of that
\* earlier run
C13_QueryReusesAnalysis ==
    \A r \in RunSlots :
        (runs[r].tool = "query" /\ runs[r].call = "returned" /\ runs[r].prior # None)
        => /\ runs[r].analysisId = IdleRun.analysisId
           /\ runs[r].answer = runs[r].prior

-----------------------------------------------------------------------------
(* Properties of the end-to-end scenarios *)

\* C14: a standard run on the directory whose only file is main.go at its
\* root returns with exactly one identified module and exactly one structural
\* report, which has one symbol and no export
C14_RootFileIsOneModule ==
    \A r \in RunSlots :
        (runs[r].pc = "returned" /\ runs[r].source = SrcGo /\ runs[r].depth = "standard")
        => /\ Len(runs[r].surface[1].identifiedModules) = 1
           /\ Len(runs[r].structural) = 1
           /\ Len(runs[r].structural[1].symbols) = 1
           /\ runs[r].structural[1].exports = <<>>

\* C15: a standard run on the empty directory returns, with fileCount 0, a
\* complexity score of exactly 0, no module, no structural report and no
\* partialFailures entry
C15_EmptyDirectoryScoresZero ==
    \A r \in RunSlots :
        (runs[r].source = SrcEmpty /\ runs[r].depth = "standard"
         /\ runs[r].pc \in {"returned", "failed"} /\ runs[r].surface # None)
        => /\ runs[r].pc = "returned"
           /\ runs[r].surface[1].fileCount = 0
           /\ runs[r].surface[1].complexity = 0
           /\ runs[r].surface[1].identifiedModules = <<>>
           /\ runs[r].structural = <<>>
           /\ runs[r].result[1].partialFailures = <<>>

-----------------------------------------------------------------------------
(* Properties of the structural phase *)

\* C16: while a run is in its structural phase, at most
\* MAX_PARALLEL_STRUCTURAL extractions are in progress, all of them for
\* modules of the current batch; no module of a later batch has a task, loaded
\* files or an extraction call, and every task of an earlier batch is settled
C16_BatchesOneAfterTheOther ==
    \A r \in RunSlots :
        runs[r].pc \in {"loading", "extracting"} =>
            LET run == runs[r]
                end == run.batchStart + MAX_PARALLEL_STRUCTURAL
            IN /\ Cardinality(run.pending) <= MAX_PARALLEL_STRUCTURAL
               /\ \A k \in run.pending : run.batchStart < k /\ k <= end
               /\ Len(run.tasks) <= end
               /\ \A j \in 1..Len(run.tasks) :
                     j <= run.batchStart => run.tasks[j].status # "pending"
               /\ run.extractCalls \subseteq
                     {run.modulesToAnalyze[k].path :
                         k \in 1..Min(end, Len(run.modulesToAnalyze))}

\* the five extractions of the second batch are in progress
C16_Witness ==
    \E r \in RunSlots :
        /\ runs[r].pc = "extracting"
        /\ runs[r].batchStart = MAX_PARALLEL_STRUCTURAL
        /\ Cardinality(runs[r].pending) = MAX_PARALLEL_STRUCTURAL

\* C17: the merged structural list does not depend on the order the
\* extractions of a batch settle in: while a batch is under way the list holds
\* the reports of the earlier batches only, in list order, and a run whose
\* structural phase did not fail returns with the reports of exactly the
\* modules that produced one, in list order
C17_MergedListIsStable ==
    \A r \in RunSlots :
        LET run == runs[r]
            reportsUpTo(n) ==
                Present([k \in 1..n |-> ExtractionResult(run.modulesToAnalyze[k].path)])
        IN /\ run.pc \in {"loading", "extracting"}
              => run.results = reportsUpTo(run.batchStart)
           /\ (/\ run.pc = "returned"
               /\ run.depth # "surface"
               /\ \A i \in 1..Len(run.partialFailures) :
                     run.partialFailures[i].layer # "structural")
              => run.structural = reportsUpTo(Len(run.modulesToAnalyze))

\* in the second batch the last extraction has settled with a report while the
\* first is still in progress
C17_Witness ==
    \E r \in RunSlots :
        /\ runs[r].pc = "extracting"
        /\ runs[r].batchStart = MAX_PARALLEL_STRUCTURAL
        /\ runs[r].batchStart + 1 \in runs[r].pending
        /\ runs[r].batchResults[MAX_PARALLEL_STRUCTURAL] # None
        /\ runs[r].results # <<>>

-----------------------------------------------------------------------------
(* Properties of the lookup by analysisId *)

\* C18, as the specification states it: the lookup by analysisId made by an
\* expansion removes every expired entry it meets in its scan, up to the entry
\* that carries the id, and it returns an entry only if that entry carries the
\* id and is not expired
C18_ScanEvictsExpired ==
    [][resp'.op = "expand" =>
          LET e    == EntryOf(resp'.analysisId)
              last == IF e = 0 THEN Len(cache) ELSE e
          IN /\ \A i \in 1..last :
                   IsExpired(cache[i], now) => KeyIdx(cache', cache[i].key) = 0
             /\ resp'.error # Some(ErrAnalysisNotFound)
                => e # 0 /\ ~IsExpired(cache[e], now)]_vars

\* C18, amended: the lookup by analysisId returns an entry only if that entry
\* carries the id and is not expired; it removes the first entry that carries
\* the id when that entry is expired, and no other entry, expired or not
C18_LookupEvictsOnlyItsEntry ==
    [][resp'.op = "expand" =>
          LET e == EntryOf(resp'.analysisId) IN
          /\ resp'.error # Some(ErrAnalysisNotFound)
             => e # 0 /\ ~IsExpired(cache[e], now)
          /\ cache' = IF e # 0 /\ IsExpired(cache[e], now)
                      THEN MapDelete(cache, cache[e].key)
                      ELSE cache]_vars

\* a lookup has removed the expired entry that carries its id and has left
\* another expired entry in the cache
C18_Witness ==
    /\ resp.op = "expand"
    /\ resp.error = Some(ErrAnalysisNotFound)
    /\ resp.removed = 1
    /\ \E i \in 1..Len(cache) : IsExpired(cache[i], now)

\* C19: when the structural phase of a run fails as a whole, the step leaves
\* the run with exactly one partialFailures entry of layer "structural" and an
\* empty structural list, and takes it to the semantic phase or to its return;
\* and when such a run returns, its result carries that one entry, is built
\* from the empty structural list, and lies in the cache
C19_StructuralFailureTolerated ==
    [][\A r \in RunSlots :
          LET run      == runs'[r]
              failures == {i \in 1..Len(run.partialFailures) :
                              run.partialFailures[i].layer = "structural"}
              found    == getByAnalysisId(cache', run.analysisId, now').value
          IN /\ (runs[r].pc = "loading" /\ run.pc # "extracting")
                => /\ Cardinality(failures) = 1
                   /\ run.structural = <<>>
                   /\ run.pc \in {"semantic", "returned"}
             /\ (Returns(r) /\ failures # {})
                => /\ run.result # None
                   /\ run.result[1].partialFailures = run.partialFailures
                   /\ Cardinality(failures) = 1
                   /\ run.result[1].sections =
                          buildExpandableSections(run.surface[1], <<>>, run.semantic)
                   /\ found # None
                   /\ found[1].result = run.result[1]
                   /\ found[1].structural = <<>>]_vars

\* a run whose structural phase failed after its first batch was merged has
\* gone through the semantic phase and returned
C19_Witness ==
    \E r \in RunSlots :
        /\ runs[r].pc = "returned"
        /\ runs[r].results # <<>>
        /\ runs[r].structural = <<>>
        /\ runs[r].semanticCalls = 1
        /\ \E i \in 1..Len(runs[r].result[1].partialFailures) :
              runs[r].result[1].partialFailures[i].layer = "structural"

-----------------------------------------------------------------------------
(* Properties of the module budget *)

\* C20: in a run that went past its surface scan at depth standard or deep,
\* the modules handed to the structural extraction number at most
\* ceil(tokenBudget / 50000), for the budget the run works with, and are a
\* prefix of the focus-filtered list of identified modules
C20_ModulesWithinBudget ==
    \A r \in RunSlots :
        (runs[r].surface # None /\ runs[r].depth # "surface")
        => LET filtered == FocusFiltered(runs[r].surface[1].identifiedModules,
                                         runs[r].focus)
               kept     == runs[r].modulesToAnalyze
           IN /\ Len(kept) <= CeilDiv(runs[r].tokenBudget, TokensPerModule)
              /\ kept = Take(filtered, Len(kept))

-----------------------------------------------------------------------------
(* Properties of the focus filter *)

\* the warning about a focus filter that matched no module
FocusWarning == "No modules matched focus filter. Analyzing all modules."

-----------------------------------------------------------------------------
(* Properties of the semantic call *)

\* C22: whenever the semantic service has been called for a run, the
\* output-token limit of the call is min(8192, tokenBudget - tokensUsed),
\* tokensUsed being the estimated token count of the surface report
C22_SemanticLimitIsRemainingBudget ==
    \A r \in RunSlots :
        runs[r].maxOutputTokens # None
        => runs[r].maxOutputTokens[1]
               = Min(SemanticTokenCap,
                     runs[r].tokenBudget - runs[r].surface[1].estimatedTokens)

-----------------------------------------------------------------------------
(* Properties of the cache under interleaved runs *)

\* C23: with runs interleaved, every entry of the cache after a step either
\* was in the cache before it, unchanged, or is inserted by the run that
\* returns in that step and is whole: its result is that run's result and
\* carries its analysisId, its surface, structural and semantic parts are that
\* run's, and the sections of the result are built from those parts
C23_EntriesComeFromOneRun ==
    [][\A i \in 1..Len(cache') :
          \/ \E j \in 1..Len(cache) : cache[j] = cache'[i]
          \/ \E r \in RunSlots :
                LET run   == runs'[r]
                    value == cache'[i].value
                IN /\ Returns(r)
                   /\ value.result = run.result[1]
                   /\ value.result.analysisId = run.analysisId
                   /\ value.surface = run.surface[1]
                   /\ value.structural = run.structural
                   /\ value.semantic = run.semantic
                   /\ value.result.sections =
                          buildExpandableSections(value.surface, value.structural,
                                                  value.semantic)]_vars

\* a run that started later has returned and its entry, semantic part
\* included, lies in the cache while the run that started before it is still
\* extracting
C23_Witness ==
    \E r, q \in RunSlots :
        /\ runs[r].pc = "returned"
        /\ runs[r].semantic # None
        /\ runs[q].pc = "extracting"
        /\ runs[q].analysisId < runs[r].analysisId
        /\ \E i \in 1..Len(cache) :
              /\ cache[i].value.result.analysisId = runs[r].analysisId
              /\ cache[i].value.semantic = runs[r].semantic

-----------------------------------------------------------------------------
(* Properties of the retry wrapper *)

\* the errors of RetryOutcomes that count as retryable: Error objects whose
\* message names a rate limit, a quota or a timeout
RetryableOutcomes ==
    {Thrown(TRUE, <<"4", "2", "9">>), Thrown(TRUE, <<"Q", "u", "o", "t", "a">>),
     Thrown(TRUE, <<"t", "i", "m", "e", "o", "u", "t">>)}

\* C24: an invocation of the retry wrapper comes to an end; at every moment
\* it has made at most MAX_RETRIES + 1 attempts and every attempt but the last
\* threw a retryable error; when it returns, the last attempt is the first
\* that resolved and its value is returned; when it fails, it fails with what
\* the last attempt threw, which was not retryable or was the fourth attempt
C24_RetryTerminates ==
    /\ [](LET h == retry.history
              n == Len(retry.history)
          IN /\ n <= MAX_RETRIES + 1
             /\ \A i \in 1..(n - 1) : h[i] \in RetryableOutcomes
             /\ retry.status = "calling" => n = retry.attempt
             /\ retry.status = "sleeping"
                => n = retry.attempt + 1 /\ h[n] \in RetryableOutcomes
             /\ retry.status = "returned"
                => n > 0 /\ h[n].ok /\ retry.value = Some(h[n].value)
             /\ retry.status = "failed"
                => /\ n > 0 /\ ~h[n].ok
                   /\ retry.error = Some(Thrown(TRUE, h[n].message))
                   /\ h[n] \notin RetryableOutcomes \/ n = MAX_RETRIES + 1)
    /\ <>(retry.status \in {"returned", "failed"})

\* the wrapper has failed after three retries, each attempt having thrown a
\* retryable error
C24_Witness ==
    /\ retry.status = "failed"
    /\ Len(retry.history) = MAX_RETRIES + 1
    /\ retry.history[MAX_RETRIES + 1] \in RetryableOutcomes

-----------------------------------------------------------------------------
(* Properties of concurrent tool calls on one source *)

\* C25: at the step in which a query_repo call returns, the analysisId it
\* returns is the id of an entry that the lookup by analysisId finds
C25_AnswerStillRetrievable ==
    [][\A r \in RunSlots :
          (runs[r].tool = "query" /\ runs[r].call = "pending"
           /\ runs'[r].call = "returned")
          => getByAnalysisId(cache', runs'[r].answer[1], now').value # None]_vars

-----------------------------------------------------------------------------
(* Properties of the cache: one entry per source *)

\* C26: no two entries of the cache have the same key; and at the step in
\* which a run returns on a source whose key the cache already holds, from an
\* earlier run, the lookup by the returning run's analysisId finds its entry
\* and the lookup by the earlier run's analysisId finds nothing
C26_OneEntryPerSource ==
    [][/\ \A i, j \in 1..Len(cache') : cache'[i].key = cache'[j].key => i = j
       /\ \A r \in RunSlots :
             LET k == KeyIdx(cache, generateKey(runs'[r].source)) IN
             (Returns(r) /\ k # 0)
             => /\ getByAnalysisId(cache', runs'[r].analysisId, now').value # None
                /\ getByAnalysisId(cache', cache[k].value.result.analysisId,
                                   now').value = None]_vars

\* C27: a step in which a run inserts its result under a key the cache
\* already holds leaves the entry of every other key in the cache, unchanged,
\* and puts the run's result under the key
C27_OverwriteKeepsOtherKeys ==
    [][\A r \in RunSlots :
          LET key == generateKey(runs'[r].source) IN
          (runs'[r].cacheSets > runs[r].cacheSets /\ KeyIdx(cache, key) # 0)
          => /\ \A i \in 1..Len(cache) :
                   cache[i].key # key
                   => /\ KeyIdx(cache', cache[i].key) # 0
                      /\ cache'[KeyIdx(cache', cache[i].key)] = cache[i]
             /\ KeyIdx(cache', key) # 0
             /\ cache'[KeyIdx(cache', key)].value.result = runs'[r].result[1]]_vars

-----------------------------------------------------------------------------
(* Properties of the section ids *)

\* C28: in the result a run returns no two sections have the same id, and
\* the section that the lookup by id of expandSection finds for the id
\* generated from a module's path is the section of that module
C28_SectionIdsUnique ==
    \A r \in RunSlots :
        runs[r].pc = "returned" =>
            LET sections == runs[r].result[1].sections
                modules  == runs[r].surface[1].identifiedModules
            IN /\ \A i, j \in 1..Len(sections) :
                     sections[i].id = sections[j].id => i = j
               /\ \A k \in 1..Min(MaxModuleSections, Len(modules)) :
                     First({n \in 1..Len(sections) :
                               sections[n].id = ModuleSectionId(modules[k].path)}) = k

-----------------------------------------------------------------------------
(* Properties of the semantic call's limit *)

\* C29: whenever the semantic service has been called for a run, the
\* output-token limit of the call is a positive number
C29_SemanticLimitPositive ==
    \A r \in RunSlots :
        runs[r].maxOutputTokens # None => runs[r].maxOutputTokens[1] > 0

-----------------------------------------------------------------------------
(* Properties of the progress spinner *)

\* the interval timers still running that a spinner of the run started
SpinnerTimersOf(run) == {tm \in logger.timers : tm[1] = run.analysisId}

\* C30: once a run has returned or failed, none of the spinner timers it
\* started is still running, also when it failed because the surface scan
\* failed, and at no moment is more than one spinner timer running
C30_SpinnersStopped ==
    /\ \A r \in RunSlots :
           runs[r].pc \in {"returned", "failed"} => SpinnerTimersOf(runs[r]) = {}
    /\ Cardinality(logger.timers) <= 1

====
